---- MODULE Spec2Model ----
(***************************************************************************)
(* Metric helpers and loaders of tutorials/tutorial12/tutorial-12-cdmd:    *)
(* calc_iou, calc_miou, f1_score, calc_f1, get_video, get_gt_video,       *)
(* get_video_dmd and get_video_removed.                                    *)
(* Spec is the metric helpers run on given arrays; SpecLoader is the two   *)
(* tensor loaders run on a given dataset directory; SpecDmd is            *)
(* get_video_dmd; SpecRemoved is get_video_removed; SpecScenario is the    *)
(* end-to-end scenario of calc_f1 on three synthetic frames.               *)
(*                                                                         *)
(* A float is an exact rational <<n, d>> in lowest terms with d > 0; the   *)
(* pair <<0, 0>> is NaN.  An ndarray is a record [shape, data]: shape is   *)
(* (frames, height, width) and data is the sequence of frames, each frame  *)
(* the row-major sequence of its pixels.                                   *)
(***************************************************************************)
EXTENDS Integers, Sequences, FiniteSets, TLC

\* Largest number of frames of an array.
MaxFrames == 2
\* Largest width of a frame (frames have one row).
MaxWidth == 2
\* Largest number of pixels of an array.
MaxSize == 4
\* Number of file names a dataset directory can hold.
MaxFiles == 3

\* Most runs of the background subtraction cell on one loaded video.
MaxRuns == 3

VARIABLES
    video_removed,  \* the caller's pred array (notebook: video_removed)
    gt,             \* the caller's truth array (notebook: gt)
    orig,           \* history: the arrays as first passed
    pc,             \* "idle" or "calc_miou" (inside the loop of calc_miou)
    pred,           \* calc_miou's local pred: [obj, val]
    thresh,         \* calc_miou's thresh
    i,              \* calc_miou's loop index (1-based)
    miou,           \* calc_miou's accumulator
    ret,            \* the last return of calc_miou / calc_f1
    iou_call,       \* history: the last calc_iou call
    visited,        \* history: the frame pairs given to calc_iou in this call
    f1_call,        \* history: the last f1_score call
    fs,             \* the dataset: directory -> (file name -> gray byte)
    reads,          \* history: the paths given to cv2.imread, in order
    tmp,            \* the video tensor (notebook: tmp = get_video(OBJ))
    video_reads,    \* history: the paths get_video gave to cv2.imread
    dmd,            \* history: the last get_video_dmd call
    bg,             \* the background model (notebook: bg)
    removed,        \* the last return of get_video_removed: [obj, val]
    runs,           \* history: the number of get_video_removed calls
    tmp0            \* history: the video tensor as first passed

vars == <<video_removed, gt, orig, pc, pred, thresh, i, miou, ret,
          iou_call, visited, f1_call, fs, reads, tmp, video_reads, dmd, bg,
          removed, runs, tmp0>>

\* The state of the metric helpers, and of the loader.
metricVars == <<video_removed, orig, pc, pred, thresh, i, miou, ret,
                iou_call, visited, f1_call>>

loaderVars == <<fs, reads>>

\* The state of get_video, get_video_dmd and get_video_removed.
pipelineVars == <<tmp, video_reads, dmd, bg, removed, runs, tmp0>>

----------------------------------------------------------------------------
\* Rational arithmetic standing for Python / numpy float arithmetic.

RECURSIVE Gcd(_, _)
Gcd(a, b) == IF b = 0 THEN a ELSE Gcd(b, a % b)

Abs(x) == IF x < 0 THEN -x ELSE x

NaN == <<0, 0>>

Zero == <<0, 1>>

One == <<1, 1>>

\* n / d for d > 0, in lowest terms.
Rat(n, d) == LET g == Gcd(Abs(n), d) IN <<n \div g, d \div g>>

IsNaN(a) == a[2] = 0

\* a < b ; False when either is NaN, as for floats.
RLt(a, b) == ~IsNaN(a) /\ ~IsNaN(b) /\ a[1] * b[2] < b[1] * a[2]

\* a >= b ; False when either is NaN.
RGe(a, b) == ~IsNaN(a) /\ ~IsNaN(b) /\ a[1] * b[2] >= b[1] * a[2]

RLe(a, b) == RGe(b, a)

\* a - b
RSub(a, b) ==
    IF IsNaN(a) \/ IsNaN(b) THEN NaN
    ELSE Rat(a[1] * b[2] - b[1] * a[2], a[2] * b[2])

RAdd(a, b) ==
    IF IsNaN(a) \/ IsNaN(b) THEN NaN
    ELSE Rat(a[1] * b[2] + b[1] * a[2], a[2] * b[2])

\* n * a for an integer n
RMulInt(a, n) == IF IsNaN(a) THEN NaN ELSE Rat(a[1] * n, a[2])

\* a / n for an integer n; n = 0 gives NaN (0/0) as numpy does.
RDivInt(a, n) ==
    IF IsNaN(a) \/ n = 0 THEN NaN ELSE Rat(a[1], a[2] * n)

\* Integer n over integer d (numpy true division); d = 0 gives NaN.
IntDiv(n, d) == IF d = 0 THEN NaN ELSE Rat(n, d)

----------------------------------------------------------------------------
\* Input domains.

PredValues == {<<-1, 2>>, Zero, <<1, 2>>, One}

TruthValues == {Zero, One}

Thresholds == {<<-1, 2>>, Zero, <<1, 2>>, One}

Shapes ==
    {<<f, 1, w>> : f \in 1..MaxFrames, w \in 1..MaxWidth} \cap
    {s \in (1..MaxFrames) \X {1} \X (1..MaxWidth) : s[1] * s[3] <= MaxSize}

ArraysOfShape(s, V) ==
    {[shape |-> s, data |-> d] : d \in [1..s[1] -> [1..(s[2] * s[3]) -> V]]}

Arrays(V) == UNION {ArraysOfShape(s, V) : s \in Shapes}

None == [none |-> TRUE]

\* The two directories of SegTrackv2.
Dirs == {"JPEGImages", "GroundTruth"}

\* A dataset without files.
EmptyDataset == [d \in Dirs |-> <<>>]

\* Nothing loaded, nothing subtracted.
PipelineIdle ==
    /\ tmp = None
    /\ video_reads = <<>>
    /\ dmd = None
    /\ bg = None
    /\ removed = None
    /\ runs = 0
    /\ tmp0 = None

\* No metric helper called.
MetricsIdle ==
    /\ video_removed = None
    /\ orig = None
    /\ pc = "idle"
    /\ pred = None
    /\ thresh = Zero
    /\ i = 0
    /\ miou = Zero
    /\ ret = None
    /\ iou_call = None
    /\ visited = <<>>
    /\ f1_call = None

----------------------------------------------------------------------------
\* calc_iou

\* Variant: the first masked assignment with <= for <.
SetBelowInclusive(frame, t) ==
    [k \in DOMAIN frame |-> IF RLe(frame[k], t) THEN Zero ELSE frame[k]]

\* pred[pred < thresh] = 0
SetBelow(frame, t) ==
    [k \in DOMAIN frame |-> IF RLt(frame[k], t) THEN Zero ELSE frame[k]]

\* Variant: the second masked assignment with <= for >=.
SetAtOrAboveFlipped(frame, t) ==
    [k \in DOMAIN frame |-> IF RLe(frame[k], t) THEN One ELSE frame[k]]

\* pred[pred >= thresh] = 1
SetAtOrAbove(frame, t) ==
    [k \in DOMAIN frame |-> IF RGe(frame[k], t) THEN One ELSE frame[k]]

\* The two masked assignments, in the order of the code.
Binarize(frame, t) == SetAtOrAbove(SetBelow(frame, t), t)

\* numpy truth value of an element: nonzero (NaN is truthy).
Truthy(x) == x # Zero

\* Variant: the intersection counted with logical_or.
IntersectionAsOr(p, truth) ==
    Cardinality({k \in DOMAIN p : Truthy(p[k]) \/ Truthy(truth[k])})

\* np.logical_and(pred, truth).sum()
Intersection(p, truth) ==
    Cardinality({k \in DOMAIN p : Truthy(p[k]) /\ Truthy(truth[k])})

\* np.logical_or(pred, truth).sum()
Union(p, truth) ==
    Cardinality({k \in DOMAIN p : Truthy(p[k]) \/ Truthy(truth[k])})

\* Variant: the division without the union > 0 guard.
IouValueUnguarded(intersection, union) == IntDiv(intersection, union)

\* intersection / union if union > 0 else 0
IouValue(intersection, union) ==
    IF union > 0 THEN IntDiv(intersection, union) ELSE Zero

\* calc_iou(pred, truth, thresh): the frame pred after the call, and the
\* value returned.
calc_iou(p, truth, t) ==
    LET b == Binarize(p, t)
    IN  [pred |-> b, ret |-> IouValue(Intersection(b, truth), Union(b, truth))]

----------------------------------------------------------------------------
\* Exact arithmetic for f1_score.  A natural number is the sequence of its
\* base-10000 digits, least significant first, without high zeros; a float
\* is [n, d], numerator over denominator, and d = <<>> is NaN / inf.

RECURSIVE BigNorm(_)
BigNorm(a) ==
    IF a = <<>> THEN <<>>
    ELSE IF a[Len(a)] = 0 THEN BigNorm(SubSeq(a, 1, Len(a) - 1))
    ELSE a

RECURSIVE BigOfInt(_)
BigOfInt(n) ==
    IF n = 0 THEN <<>> ELSE <<n % 10000>> \o BigOfInt(n \div 10000)

RECURSIVE BigAddC(_, _, _)
BigAddC(a, b, c) ==
    IF a = <<>> /\ b = <<>> THEN (IF c = 0 THEN <<>> ELSE <<c>>)
    ELSE LET x == IF a = <<>> THEN 0 ELSE Head(a)
             y == IF b = <<>> THEN 0 ELSE Head(b)
             ra == IF a = <<>> THEN <<>> ELSE Tail(a)
             rb == IF b = <<>> THEN <<>> ELSE Tail(b)
             s == x + y + c
         IN  <<s % 10000>> \o BigAddC(ra, rb, s \div 10000)

BigAdd(a, b) == BigNorm(BigAddC(a, b, 0))

RECURSIVE BigMulDigit(_, _, _)
BigMulDigit(a, m, c) ==
    IF a = <<>> THEN (IF c = 0 THEN <<>> ELSE <<c>>)
    ELSE LET s == Head(a) * m + c
         IN  <<s % 10000>> \o BigMulDigit(Tail(a), m, s \div 10000)

RECURSIVE BigMulR(_, _)
BigMulR(a, b) ==
    IF b = <<>> THEN <<>>
    ELSE BigAddC(BigMulDigit(a, Head(b), 0), <<0>> \o BigMulR(a, Tail(b)), 0)

BigMul(a, b) == BigNorm(BigMulR(a, b))

RECURSIVE BigLtFrom(_, _, _)
BigLtFrom(a, b, k) ==
    IF k = 0 THEN FALSE
    ELSE IF a[k] # b[k] THEN a[k] < b[k]
    ELSE BigLtFrom(a, b, k - 1)

\* a < b, both without high zeros
BigLt(a, b) ==
    IF Len(a) # Len(b) THEN Len(a) < Len(b) ELSE BigLtFrom(a, b, Len(a))

BigLe(a, b) == ~BigLt(b, a)

FNaN == [n |-> <<>>, d |-> <<>>]

FIsNaN(x) == x.d = <<>>

\* The float of a non-negative integer.
FOfInt(k) == [n |-> BigOfInt(k), d |-> BigOfInt(1)]

\* x + y
FAdd(x, y) ==
    IF FIsNaN(x) \/ FIsNaN(y) THEN FNaN
    ELSE [n |-> BigAdd(BigMul(x.n, y.d), BigMul(y.n, x.d)),
          d |-> BigMul(x.d, y.d)]

\* x * y
FMul(x, y) ==
    IF FIsNaN(x) \/ FIsNaN(y) THEN FNaN
    ELSE [n |-> BigMul(x.n, y.n), d |-> BigMul(x.d, y.d)]

\* x / y ; division by zero gives nan or inf, never an exception (numpy
\* scalars).
FDiv(x, y) ==
    IF FIsNaN(x) \/ FIsNaN(y) \/ y.n = <<>> THEN FNaN
    ELSE [n |-> BigMul(x.n, y.d), d |-> BigMul(x.d, y.n)]

\* x <= y ; False when either is NaN.
FLe(x, y) ==
    ~FIsNaN(x) /\ ~FIsNaN(y) /\ BigLe(BigMul(x.n, y.d), BigMul(y.n, x.d))

----------------------------------------------------------------------------
\* f1_score

RECURSIVE SeqSum(_)
SeqSum(s) == IF s = <<>> THEN 0 ELSE Head(s) + SeqSum(Tail(s))

\* uint8 elementwise arithmetic wraps modulo 256.
\* (y_true * y_pred).sum()
TruePos(y_true, y_pred) ==
    SeqSum([k \in DOMAIN y_true |-> (y_true[k] * y_pred[k]) % 256])

\* ((1 - y_true) * (1 - y_pred)).sum()
TrueNeg(y_true, y_pred) ==
    SeqSum([k \in DOMAIN y_true |->
              (((1 - y_true[k]) % 256) * ((1 - y_pred[k]) % 256)) % 256])

\* ((1 - y_true) * y_pred).sum()
FalsePos(y_true, y_pred) ==
    SeqSum([k \in DOMAIN y_true |-> (((1 - y_true[k]) % 256) * y_pred[k]) % 256])

\* (y_true * (1 - y_pred)).sum()
FalseNeg(y_true, y_pred) ==
    SeqSum([k \in DOMAIN y_true |-> (y_true[k] * ((1 - y_pred[k]) % 256)) % 256])

\* Variant: no stabilising epsilon.
epsilon_zero == [n |-> <<>>, d |-> BigOfInt(1)]

\* epsilon = 1e-7
epsilon == [n |-> BigOfInt(1), d |-> BigOfInt(10000000)]

\* beta: int = 1
beta == 1

\* precision = tp / (tp + fp + epsilon)
Precision(tp, fp) == FDiv(FOfInt(tp), FAdd(FOfInt(tp + fp), epsilon))

\* recall = tp / (tp + fn + epsilon)
Recall(tp, fn) == FDiv(FOfInt(tp), FAdd(FOfInt(tp + fn), epsilon))

\* Variant: the factor (1 + beta**2) left out.
F1FromCountsNoFactor(tp, fp, fn) ==
    LET precision == Precision(tp, fp)
        recall == Recall(tp, fn)
    IN  FDiv(FMul(precision, recall),
             FAdd(FAdd(FMul(FOfInt(beta * beta), precision), recall),
                  epsilon))

\* f1 = (1 + beta**2) * (precision * recall)
\* f1 /= beta**2 * precision + recall + epsilon
F1FromCounts(tp, fp, fn) ==
    LET precision == Precision(tp, fp)
        recall == Recall(tp, fn)
        f1 == FMul(FOfInt(1 + beta * beta), FMul(precision, recall))
    IN  FDiv(f1, FAdd(FAdd(FMul(FOfInt(beta * beta), precision), recall),
                      epsilon))

\* The (tp, fp, fn) an array of at most MaxSize elements can give.
CountTriples ==
    {c \in (0..MaxSize) \X (0..MaxSize) \X (0..MaxSize) :
       c[1] + c[2] + c[3] <= MaxSize}

RECURSIVE TableOver(_)
TableOver(S) ==
    IF S = {} THEN <<>>
    ELSE LET c == CHOOSE x \in S : TRUE
         IN  (c :> F1FromCounts(c[1], c[2], c[3])) @@ TableOver(S \ {c})

\* The value of f1_score's arithmetic for every such triple, computed once.
F1Table == TableOver(CountTriples)

\* f1_score(y_true, y_pred, beta=1)
f1_score(y_true, y_pred) ==
    LET c == <<TruePos(y_true, y_pred), FalsePos(y_true, y_pred),
               FalseNeg(y_true, y_pred)>>
    IN  IF c \in DOMAIN F1Table THEN F1Table[c]
        ELSE F1FromCounts(c[1], c[2], c[3])

----------------------------------------------------------------------------
\* calc_f1

\* astype(np.uint8) of one float: truncation toward zero, modulo 256.
AsUint8(x) ==
    (IF x[1] < 0 THEN -((-x[1]) \div x[2]) ELSE x[1] \div x[2]) % 256

RECURSIVE Concat(_)
Concat(ss) == IF ss = <<>> THEN <<>> ELSE Head(ss) \o Concat(Tail(ss))

\* a.astype(np.uint8).flatten()
Uint8Flat(a) ==
    Concat([f \in DOMAIN a.data |->
              [k \in DOMAIN a.data[f] |-> AsUint8(a.data[f][k])]])

\* pred[pred < thresh] = 0 ; pred[pred >= thresh] = 1 on the whole array
BinarizeArray(a, t) ==
    [a EXCEPT !.data = [f \in DOMAIN a.data |-> Binarize(a.data[f], t)]]

----------------------------------------------------------------------------
\* calc_miou

\* Variant: no copy, the local name stays bound to the caller's object.
ndarray_alias(a) == [obj |-> "caller", val |-> a]

\* pred.copy(): a fresh object holding the same values.
ndarray_copy(a) == [obj |-> "fresh", val |-> a]

\* The array the caller sees after a write through the local reference.
WriteThrough(local, caller) ==
    IF local.obj = "caller" THEN local.val ELSE caller

\* Variant: the assert left out.
ShapeAssertOff(p, truth) == TRUE

\* assert pred.shape == truth.shape
ShapeAssert(p, truth) == p.shape = truth.shape

\* Variant: the loop and the mean taken over one frame less.
FrameCountShort(a) == a.shape[1] - 1

\* range(pred.shape[0]), 1-based
FrameCount(a) == a.shape[1]

Init ==
    /\ video_removed \in Arrays(PredValues)
    /\ gt \in Arrays(TruthValues)
    /\ orig = [video_removed |-> video_removed, gt |-> gt]
    /\ pc = "idle"
    /\ pred = None
    /\ thresh = Zero
    /\ i = 0
    /\ miou = Zero
    /\ ret = None
    /\ iou_call = None
    /\ visited = <<>>
    /\ f1_call = None
    /\ fs = EmptyDataset
    /\ reads = <<>>
    /\ PipelineIdle

\* calc_miou(video_removed, gt, thresh=t) with unequal shapes: the assert
\* raises.
CallMiouBadShape(t) ==
    /\ pc = "idle"
    /\ ~ShapeAssert(video_removed, gt)
    /\ ret' = [fn |-> "calc_miou", thresh |-> t, err |-> TRUE, val |-> NaN]
    /\ iou_call' = None
    /\ visited' = <<>>
    /\ f1_call' = None
    /\ UNCHANGED <<video_removed, gt, orig, pc, pred, thresh, i, miou>>
    /\ UNCHANGED loaderVars
    /\ UNCHANGED pipelineVars

\* calc_miou(video_removed, gt, thresh=t): the assert passes, pred is copied,
\* miou = 0 and the loop is entered.
CallMiou(t) ==
    /\ pc = "idle"
    /\ ShapeAssert(video_removed, gt)
    /\ pred' = ndarray_copy(video_removed)
    /\ thresh' = t
    /\ miou' = Zero
    /\ i' = 1
    /\ pc' = "calc_miou"
    /\ ret' = None
    /\ iou_call' = None
    /\ visited' = <<>>
    /\ f1_call' = None
    /\ UNCHANGED <<video_removed, gt, orig>>
    /\ UNCHANGED loaderVars
    /\ UNCHANGED pipelineVars

\* One iteration: iou = calc_iou(pred[i], truth[i], thresh); miou += iou
MiouIter ==
    /\ pc = "calc_miou"
    /\ i <= FrameCount(pred.val)
    /\ LET r == calc_iou(pred.val.data[i], gt.data[i], thresh)
           p2 == [pred EXCEPT !.val.data[i] = r.pred]
       IN  /\ pred' = p2
           /\ video_removed' = WriteThrough(p2, video_removed)
           /\ miou' = RAdd(miou, r.ret)
           /\ iou_call' = [pred_in |-> pred.val.data[i], truth |-> gt.data[i],
                           thresh |-> thresh, pred_out |-> r.pred,
                           ret |-> r.ret]
           /\ visited' = Append(visited, <<i, i>>)
    /\ i' = i + 1
    /\ UNCHANGED <<gt, orig, pc, thresh, ret, f1_call>>
    /\ UNCHANGED loaderVars
    /\ UNCHANGED pipelineVars

\* return miou / pred.shape[0] ; the locals of the call are gone.
MiouReturn ==
    /\ pc = "calc_miou"
    /\ i > FrameCount(pred.val)
    /\ ret' = [fn |-> "calc_miou", thresh |-> thresh, err |-> FALSE,
               val |-> RDivInt(miou, FrameCount(pred.val))]
    /\ pc' = "idle"
    /\ pred' = None
    /\ thresh' = Zero
    /\ i' = 0
    /\ miou' = Zero
    /\ UNCHANGED <<video_removed, gt, orig, iou_call, visited, f1_call>>
    /\ UNCHANGED loaderVars
    /\ UNCHANGED pipelineVars

\* calc_f1(video_removed, gt, thresh=t) with unequal shapes: the assert
\* raises.
CallF1BadShape(t) ==
    /\ pc = "idle"
    /\ ~ShapeAssert(video_removed, gt)
    /\ ret' = [fn |-> "calc_f1", thresh |-> t, err |-> TRUE, val |-> NaN]
    /\ iou_call' = None
    /\ visited' = <<>>
    /\ f1_call' = None
    /\ UNCHANGED <<video_removed, gt, orig, pc, pred, thresh, i, miou>>
    /\ UNCHANGED loaderVars
    /\ UNCHANGED pipelineVars

\* calc_f1(video_removed, gt, thresh=t): both arrays are copied, the copy of
\* pred is binarized, both are cast and flattened and given to f1_score.
CallF1(t) ==
    /\ pc = "idle"
    /\ ShapeAssert(video_removed, gt)
    /\ LET p == ndarray_copy(video_removed)
           tr == ndarray_copy(gt)
           p2 == [p EXCEPT !.val = BinarizeArray(p.val, t)]
           y_true == Uint8Flat(tr.val)
           y_pred == Uint8Flat(p2.val)
           f1 == f1_score(y_true, y_pred)
       IN  /\ video_removed' = WriteThrough(p2, video_removed)
           /\ gt' = WriteThrough(tr, gt)
           /\ f1_call' = [y_true |-> y_true, y_pred |-> y_pred, ret |-> f1]
           /\ ret' = [fn |-> "calc_f1", thresh |-> t, err |-> FALSE,
                      val |-> f1]
    /\ iou_call' = None
    /\ visited' = <<>>
    /\ UNCHANGED <<orig, pc, pred, thresh, i, miou>>
    /\ UNCHANGED loaderVars
    /\ UNCHANGED pipelineVars

Next ==
    \/ \E t \in Thresholds : CallMiouBadShape(t)
    \/ \E t \in Thresholds : CallMiou(t)
    \/ MiouIter
    \/ MiouReturn
    \/ \E t \in Thresholds : CallF1BadShape(t)
    \/ \E t \in Thresholds : CallF1(t)

Spec == Init /\ [][Next]_vars

----------------------------------------------------------------------------
\* The dataset directory and get_gt_video.

\* File names are sequences of digits; sorted() orders str lexicographically.
NameList == << <<1>>, <<1, 0>>, <<2>>, <<2, 0>> >>

FileNames == {NameList[k] : k \in 1..MaxFiles}

\* Gray levels of a one-pixel image file.
Bytes == {0, 128, 255}

Listings == UNION {[S -> Bytes] : S \in SUBSET FileNames}

RECURSIVE LexLt(_, _)
\* a < b for str
LexLt(a, b) ==
    IF a = <<>> THEN b # <<>>
    ELSE IF b = <<>> THEN FALSE
    ELSE IF Head(a) # Head(b) THEN Head(a) < Head(b)
    ELSE LexLt(Tail(a), Tail(b))

RECURSIVE sorted(_)
\* sorted(S) for a collection of distinct str
sorted(S) ==
    IF S = {} THEN <<>>
    ELSE LET m == CHOOSE x \in S : \A y \in S \ {x} : LexLt(x, y)
         IN  <<m>> \o sorted(S \ {m})

\* os.listdir(f"{dir}{object}")
listdir(dir) == DOMAIN fs[dir]

\* cv2.imread(path, cv2.IMREAD_GRAYSCALE) of a one-pixel image
imread(path) == fs[path[1]][path[2]]

\* tmp.astype(np.float32) / 255
ToFloat(b) == Rat(b, 255)

\* np.asarray(imgs) for one-pixel images
asarray(imgs) ==
    [shape |-> IF imgs = <<>> THEN <<0>> ELSE <<Len(imgs), 1, 1>>,
     data |-> imgs]

\* jpeg_dir = "SegTrackv2/GroundTruth/"
jpeg_dir == "GroundTruth"

\* gt_dir = "SegTrackv2/JPEGImages/"
gt_dir == "JPEGImages"

\* Variant: the frames read from the directory named gt_dir.
imread_dir_gt_dir == gt_dir

\* The directory of the path given to imread: f"{jpeg_dir}{object}/{i}"
imread_dir == jpeg_dir

\* Variant: every name of jpeg_list, without the intersection.
valid_jpeg_list == listdir(jpeg_dir)

\* valid = list(set(jpeg_list).intersection(set(gt_list)))
valid == listdir(jpeg_dir) \cap listdir(gt_dir)

\* The paths read by the loop: for i in sorted(valid)
GtPaths == [k \in DOMAIN sorted(valid) |-> <<imread_dir, sorted(valid)[k]>>]

\* get_gt_video(object)
get_gt_video ==
    asarray([k \in DOMAIN GtPaths |-> <<ToFloat(imread(GtPaths[k]))>>])

\* jpeg_dir = "SegTrackv2/JPEGImages/" of get_video_dmd and get_video
video_dir == "JPEGImages"

\* The paths read by the loop: for i in sorted(os.listdir(...))
VideoPaths ==
    [k \in DOMAIN sorted(listdir(video_dir)) |->
        <<video_dir, sorted(listdir(video_dir))[k]>>]

\* get_video(object)
get_video ==
    asarray([k \in DOMAIN VideoPaths |-> <<ToFloat(imread(VideoPaths[k]))>>])

InitLoader ==
    /\ fs \in [Dirs -> Listings]
    /\ reads = <<>>
    /\ gt = None
    /\ video_removed = None
    /\ orig = None
    /\ pc = "idle"
    /\ pred = None
    /\ thresh = Zero
    /\ i = 0
    /\ miou = Zero
    /\ ret = None
    /\ iou_call = None
    /\ visited = <<>>
    /\ f1_call = None
    /\ PipelineIdle

\* gt = get_gt_video(OBJ)
GetGtVideo ==
    /\ gt' = get_gt_video
    /\ reads' = GtPaths
    /\ UNCHANGED fs
    /\ UNCHANGED metricVars
    /\ UNCHANGED pipelineVars

\* tmp = get_video(OBJ)
GetVideo ==
    /\ tmp' = get_video
    /\ video_reads' = VideoPaths
    /\ UNCHANGED <<gt, dmd, bg, removed, runs, tmp0>>
    /\ UNCHANGED loaderVars
    /\ UNCHANGED metricVars

NextLoader ==
    \/ GetGtVideo
    \/ GetVideo

SpecLoader == InitLoader /\ [][NextLoader]_vars

----------------------------------------------------------------------------
\* get_video_dmd

\* imgs of get_video_dmd: tmp.reshape(-1).astype(np.float32) / 255 per file
DmdImgs == [k \in DOMAIN VideoPaths |-> <<ToFloat(imread(VideoPaths[k]))>>]

\* np.vstack(imgs).T : a matrix [shape, data], one row per pixel and one
\* column per frame.
vstackT(imgs) ==
    [shape |-> <<Len(imgs[1]), Len(imgs)>>,
     data |-> [p \in 1..Len(imgs[1]) |-> [f \in 1..Len(imgs) |-> imgs[f][p]]]]

\* Values one element of np.random.normal(0, noise_amt, vid.shape) can take.
NoiseValues == {<<-1, 5>>, Zero, <<1, 5>>}

\* The draws np.random.normal can return for a matrix of shape sh.
NoiseDraws(sh) == [1..sh[1] -> [1..sh[2] -> NoiseValues]]

\* vid += noise
AddNoise(vid, noise) ==
    [vid EXCEPT !.data =
        [p \in DOMAIN vid.data |->
            [f \in DOMAIN vid.data[p] |-> RAdd(vid.data[p][f], noise[p][f])]]]

\* x.clip(0, 1) of one element
ClipValue(x) == IF RLt(x, Zero) THEN Zero ELSE IF RLt(One, x) THEN One ELSE x

\* vid.clip(0, 1)
Clip01(a) ==
    [a EXCEPT !.data =
        [p \in DOMAIN a.data |->
            [f \in DOMAIN a.data[p] |-> ClipValue(a.data[p][f])]]]

\* The local vid at the return statement.
DmdVid(noise, draw) ==
    IF noise THEN Clip01(AddNoise(vstackT(DmdImgs), draw))
    ELSE vstackT(DmdImgs)

\* return np.vstack(imgs).T, shape
DmdReturn(noise, draw) == <<vstackT(DmdImgs), <<1, 1>>>>

InitDmd ==
    /\ fs \in {[JPEGImages |-> l, GroundTruth |-> <<>>] : l \in Listings}
    /\ reads = <<>>
    /\ gt = None
    /\ MetricsIdle
    /\ PipelineIdle

\* video, shape = get_video_dmd(OBJ, False, noise_amt)
GetVideoDmdPlain ==
    /\ listdir(video_dir) # {}
    /\ dmd' = [noise |-> FALSE, draw |-> <<>>, frames |-> vstackT(DmdImgs),
               vid |-> DmdVid(FALSE, <<>>), ret |-> DmdReturn(FALSE, <<>>),
               err |-> FALSE]
    /\ UNCHANGED <<gt, tmp, video_reads, bg, removed, runs, tmp0>>
    /\ UNCHANGED loaderVars
    /\ UNCHANGED metricVars

\* video, shape = get_video_dmd(OBJ, True, noise_amt), np.random.normal
\* returning draw
GetVideoDmdNoisy(draw) ==
    /\ listdir(video_dir) # {}
    /\ dmd' = [noise |-> TRUE, draw |-> draw, frames |-> vstackT(DmdImgs),
               vid |-> DmdVid(TRUE, draw), ret |-> DmdReturn(TRUE, draw),
               err |-> FALSE]
    /\ UNCHANGED <<gt, tmp, video_reads, bg, removed, runs, tmp0>>
    /\ UNCHANGED loaderVars
    /\ UNCHANGED metricVars

\* get_video_dmd on an empty directory: np.vstack([]) raises.
GetVideoDmdEmpty ==
    /\ listdir(video_dir) = {}
    /\ dmd' = [noise |-> FALSE, draw |-> <<>>, frames |-> <<>>, vid |-> <<>>,
               ret |-> <<>>, err |-> TRUE]
    /\ UNCHANGED <<gt, tmp, video_reads, bg, removed, runs, tmp0>>
    /\ UNCHANGED loaderVars
    /\ UNCHANGED metricVars

NextDmd ==
    \/ GetVideoDmdPlain
    \/ \E draw \in NoiseDraws(<<1, Cardinality(listdir(video_dir))>>) :
          GetVideoDmdNoisy(draw)
    \/ GetVideoDmdEmpty

SpecDmd == InitDmd /\ [][NextDmd]_vars

----------------------------------------------------------------------------
\* The end-to-end scenario: three synthetic frames, frames 0 and 2 uniform
\* gray and frame 1 with a bright square, and calc_f1 at 0.5 of
\* frame1 - mean(frame0, frame2) against the mask of the square.

\* Side of a frame.
FrameSide == 4

\* Side of the bright square.
SquareSide == 2

\* Gray levels of the synthetic frames.
Levels == {Zero, <<1, 4>>, <<1, 2>>, <<3, 4>>, One}

\* Top left corners (row, column) the square can have.
Corners ==
    (1..(FrameSide - SquareSide + 1)) \X (1..(FrameSide - SquareSide + 1))

\* Pixel k (row-major, 1-based) is inside the square with this corner.
InSquare(corner, k) ==
    LET r == ((k - 1) \div FrameSide) + 1
        c == ((k - 1) % FrameSide) + 1
    IN  /\ r \in corner[1]..(corner[1] + SquareSide - 1)
        /\ c \in corner[2]..(corner[2] + SquareSide - 1)

UniformFrame(g) == [k \in 1..(FrameSide * FrameSide) |-> g]

SquareFrame(g, b, corner) ==
    [k \in 1..(FrameSide * FrameSide) |-> IF InSquare(corner, k) THEN b ELSE g]

SquareMask(corner) ==
    [k \in 1..(FrameSide * FrameSide) |->
        IF InSquare(corner, k) THEN One ELSE Zero]

\* frame1 - mean(frame0, frame2)
Foreground(frames) ==
    [k \in DOMAIN frames[2] |->
        RSub(frames[2][k], RDivInt(RAdd(frames[1][k], frames[3][k]), 2))]

\* The threshold of the scenario, 0.5.
ScenarioThreshold == <<1, 2>>

InitScenario ==
    /\ \E g \in Levels, b \in Levels, corner \in Corners :
          /\ RLt(g, b)
          /\ tmp = [shape |-> <<3, FrameSide, FrameSide>>,
                    data |-> <<UniformFrame(g), SquareFrame(g, b, corner),
                               UniformFrame(g)>>]
          /\ gt = [shape |-> <<1, FrameSide, FrameSide>>,
                   data |-> <<SquareMask(corner)>>]
    /\ fs = EmptyDataset
    /\ reads = <<>>
    /\ MetricsIdle
    /\ video_reads = <<>>
    /\ dmd = None
    /\ bg = None
    /\ removed = None
    /\ runs = 0
    /\ tmp0 = tmp

\* pred = frame1 - mean(frame0, frame2)
SubtractMean ==
    /\ video_removed = None
    /\ video_removed' = [shape |-> <<1, FrameSide, FrameSide>>,
                         data |-> <<Foreground(tmp.data)>>]
    /\ orig' = [video_removed |-> video_removed', gt |-> gt]
    /\ UNCHANGED <<gt, pc, pred, thresh, i, miou, ret, iou_call, visited,
                   f1_call>>
    /\ UNCHANGED loaderVars
    /\ UNCHANGED pipelineVars

\* calc_f1(pred, mask, 0.5)
ScenarioF1 ==
    /\ video_removed # None
    /\ CallF1(ScenarioThreshold)

NextScenario ==
    \/ SubtractMean
    \/ ScenarioF1

SpecScenario == InitScenario /\ [][NextScenario]_vars

----------------------------------------------------------------------------
\* get_video_removed and the cell that runs it:
\* video_removed = get_video_removed(tmp, bg).clip(0, 1)

\* Pixel values of a loaded video.
VideoValues == {Zero, <<1, 2>>, One}

\* Pixel values of the background model.
BgValues == {<<-1, 4>>, Zero, <<1, 4>>, <<1, 2>>}

\* Variant: the function works on a copy of its argument.
video_arg_copy(a) == [obj |-> "fresh", val |-> a]

\* The parameter video is bound to the array the caller passes.
video_arg(a) == [obj |-> "caller", val |-> a]

\* for i in range(video.shape[0]): video[i, :, :] -= bg
SubtractBg(video, b) ==
    [video EXCEPT !.data =
        [f \in 1..video.shape[1] |->
            [p \in DOMAIN video.data[f] |-> RSub(video.data[f][p], b[p])]]]

\* get_video_removed(video, bg): the object the function returns.
get_video_removed(video, b) ==
    LET local == video_arg(video)
    IN  [local EXCEPT !.val = SubtractBg(local.val, b)]

InitRemoved ==
    /\ tmp \in Arrays(VideoValues)
    /\ bg \in [1..(tmp.shape[2] * tmp.shape[3]) -> BgValues]
    /\ tmp0 = tmp
    /\ runs = 0
    /\ removed = None
    /\ video_reads = <<>>
    /\ dmd = None
    /\ fs = EmptyDataset
    /\ reads = <<>>
    /\ gt = None
    /\ MetricsIdle

\* One run of the cell on the array tmp currently names.
RunRemovedCell ==
    /\ runs < MaxRuns
    /\ LET out == get_video_removed(tmp, bg)
       IN  /\ tmp' = WriteThrough(out, tmp)
           /\ video_removed' = Clip01(out.val)
           /\ removed' = [obj |-> out.obj, val |-> out.val, before |-> tmp,
                          bg_in |-> bg, prev_fg |-> video_removed]
    /\ runs' = runs + 1
    /\ UNCHANGED <<bg, tmp0, video_reads, dmd, gt>>
    /\ UNCHANGED <<orig, pc, pred, thresh, i, miou, ret, iou_call, visited,
                   f1_call>>
    /\ UNCHANGED loaderVars

NextRemoved ==
    \/ RunRemovedCell

SpecRemoved == InitRemoved /\ [][NextRemoved]_vars

----------------------------------------------------------------------------
\* Properties.

IsBinary(frame) == \A k \in DOMAIN frame : frame[k] \in {Zero, One}

HasPositive(frame) == \E k \in DOMAIN frame : Truthy(frame[k])

Overlap(p, truth) ==
    \E k \in DOMAIN p : Truthy(p[k]) /\ Truthy(truth[k])

\* A threshold in (0, 1].
UnitThreshold(t) == RLt(Zero, t) /\ RLe(t, One)

\* calc_iou was called on two binary masks with a threshold in (0, 1].
IouOnMasks ==
    /\ iou_call # None
    /\ IsBinary(iou_call.pred_in)
    /\ IsBinary(iou_call.truth)
    /\ UnitThreshold(iou_call.thresh)

\* C1: on binary masks of one shape and a threshold in (0, 1], calc_iou
\* returns a value in [0, 1]: exactly 1 when pred equals truth and has a
\* positive pixel, exactly 0 when they share no positive pixel and truth has
\* one.
C1_IouRange ==
    IouOnMasks =>
        /\ RLe(Zero, iou_call.ret) /\ RLe(iou_call.ret, One)
        /\ (iou_call.pred_in = iou_call.truth /\ HasPositive(iou_call.truth))
              => iou_call.ret = One
        /\ (~Overlap(iou_call.pred_in, iou_call.truth)
              /\ HasPositive(iou_call.truth)) => iou_call.ret = Zero

C1_Witness ==
    /\ IouOnMasks
    /\ ~Overlap(iou_call.pred_in, iou_call.truth)
    /\ HasPositive(iou_call.truth)
    /\ HasPositive(iou_call.pred_in)
    /\ iou_call.ret = Zero

\* C2: when neither the binarized pred nor truth has a positive pixel (the
\* union is 0), calc_iou returns exactly 0, a number and no NaN.
C2_EmptyUnionIsZero ==
    (/\ iou_call # None
     /\ ~HasPositive(iou_call.pred_out)
     /\ ~HasPositive(iou_call.truth)) => iou_call.ret = Zero

C2_Witness ==
    /\ iou_call # None
    /\ ~HasPositive(iou_call.pred_out)
    /\ ~HasPositive(iou_call.truth)
    /\ HasPositive(iou_call.pred_in)
    /\ iou_call.ret = Zero

RECURSIVE SumIou(_, _, _, _)
\* The sum of calc_iou over the frames 1..n of p and truth, frame k with
\* frame k.
SumIou(p, truth, t, n) ==
    IF n = 0 THEN Zero
    ELSE RAdd(SumIou(p, truth, t, n - 1),
              calc_iou(p.data[n], truth.data[n], t).ret)

\* The arithmetic mean of calc_iou over all the frames.
MeanIou(p, truth, t) == RDivInt(SumIou(p, truth, t, p.shape[1]), p.shape[1])

\* C3: calc_miou returns the arithmetic mean over the frames of calc_iou of
\* frame i of pred and frame i of truth; the frames are visited once each, in
\* index order, frame i with frame i.
C3_MiouIsMean ==
    /\ pc = "calc_miou" => visited = [k \in 1..(i - 1) |-> <<k, k>>]
    /\ (ret # None /\ ret.fn = "calc_miou" /\ ~ret.err) =>
          /\ ret.val = MeanIou(video_removed, gt, ret.thresh)
          /\ visited = [k \in 1..video_removed.shape[1] |-> <<k, k>>]

C3_Witness ==
    /\ ret # None /\ ret.fn = "calc_miou" /\ ~ret.err
    /\ video_removed.shape[1] = 2
    /\ ret.val = <<3, 4>>
    /\ visited = << <<1, 1>>, <<2, 2>> >>

\* C4: with unequal shapes calc_miou and calc_f1 fail at once: every call
\* ends in the error, no value is returned, no calc_iou and no f1_score is
\* evaluated, and pred and truth are as the caller passed them.
C4_ShapeMismatchFails ==
    video_removed.shape # gt.shape =>
        /\ pc = "idle"
        /\ ret # None => (ret.err /\ IsNaN(ret.val))
        /\ iou_call = None
        /\ f1_call = None
        /\ visited = <<>>
        /\ video_removed = orig.video_removed
        /\ gt = orig.gt

C4_Witness ==
    /\ video_removed.shape # gt.shape
    /\ ret # None /\ ret.err /\ ret.fn = "calc_f1"

\* calc_f1 evaluated afresh on p and truth.
FreshF1(p, truth, t) ==
    f1_score(Uint8Flat(truth), Uint8Flat(BinarizeArray(p, t)))

\* C5: calc_miou and calc_f1 never modify the caller's arrays: after any
\* sequence of calls video_removed and gt hold their initial values, and the
\* value returned for a threshold is the one a first call on the initial
\* arrays returns.
C5_CallerArraysKept ==
    /\ video_removed = orig.video_removed
    /\ gt = orig.gt
    /\ (ret # None /\ ~ret.err) =>
          ret.val = IF ret.fn = "calc_miou"
                    THEN MeanIou(orig.video_removed, orig.gt, ret.thresh)
                    ELSE FreshF1(orig.video_removed, orig.gt, ret.thresh)

\* Some pixel of the array is neither 0 nor 1.
HasFraction(a) == \E f \in DOMAIN a.data : ~IsBinary(a.data[f])

C5_Witness ==
    /\ ret # None /\ ~ret.err /\ ret.fn = "calc_f1"
    /\ HasFraction(video_removed)
    /\ video_removed = orig.video_removed

\* C6 (as stated): calc_iou binarizes its pred in place: after the call each
\* element is 0 if its original value was < thresh and 1 if it was >= thresh,
\* and truth is unchanged.
C6_BinarizedInPlace ==
    iou_call # None =>
        /\ \A k \in DOMAIN iou_call.pred_in :
              iou_call.pred_out[k] =
                  IF RLt(iou_call.pred_in[k], iou_call.thresh) THEN Zero
                  ELSE One
        /\ pc = "calc_miou" => pred.val.data[i - 1] = iou_call.pred_out
        /\ gt = orig.gt

FZero == FOfInt(0)

FOne == FOfInt(1)

\* The tolerance of the claims on f1_score: twice the function's epsilon.
Tolerance == FAdd(epsilon, epsilon)

\* f1_score was called with y_pred equal to y_true.
PerfectPrediction == f1_call # None /\ f1_call.y_true = f1_call.y_pred

\* C7 (as stated): for every 0/1 array y, f1_score(y, y) is within the
\* tolerance of 1.0.
C7_PerfectIsOne ==
    PerfectPrediction =>
        /\ FLe(f1_call.ret, FOne)
        /\ FLe(FOne, FAdd(f1_call.ret, Tolerance))

\* C7 (amended): f1_score(y, y) is exactly 0 when y has no positive element;
\* with at least one it is below 1.0 by at most 2e-7, and by at most 1e-7
\* once y has two positive elements.
C7_PerfectIsOneIfPositive ==
    PerfectPrediction =>
        /\ SeqSum(f1_call.y_true) = 0 => f1_call.ret.n = <<>>
        /\ ~FIsNaN(f1_call.ret)
        /\ SeqSum(f1_call.y_true) >= 1 =>
              /\ FLe(f1_call.ret, FOne)
              /\ FLe(FOne, FAdd(f1_call.ret, Tolerance))
        /\ SeqSum(f1_call.y_true) >= 2 =>
              FLe(FOne, FAdd(f1_call.ret, epsilon))

C7_Witness ==
    /\ PerfectPrediction
    /\ SeqSum(f1_call.y_true) = 1
    /\ FLe(FOne, FAdd(f1_call.ret, Tolerance))
    /\ ~FLe(FOne, FAdd(f1_call.ret, epsilon))

\* f1_score was called with an all-zero y_pred and a y_true with a positive
\* element.
NothingPredicted ==
    /\ f1_call # None
    /\ SeqSum(f1_call.y_pred) = 0
    /\ SeqSum(f1_call.y_true) >= 1

\* C8: with an all-zero y_pred and a y_true with a positive element,
\* f1_score returns a number (no NaN, no error) within the tolerance of 0.0.
C8_NothingPredictedIsZero ==
    NothingPredicted =>
        /\ ~FIsNaN(f1_call.ret)
        /\ FLe(FZero, f1_call.ret)
        /\ FLe(f1_call.ret, Tolerance)

C8_Witness ==
    /\ NothingPredicted
    /\ ~FIsNaN(f1_call.ret)
    /\ f1_call.ret.n = <<>>

\* The number of elements that are 1 after the binarization of a at t.
CountOnes(a, t) ==
    LET b == BinarizeArray(a, t)
    IN  Cardinality({fk \in (DOMAIN b.data) \X (1..(b.shape[2] * b.shape[3])) :
                       b.data[fk[1]][fk[2]] = One})

\* C9: for a fixed pred and thresholds t1 < t2, the binarization at t2 sets
\* at most as many elements to 1 as the binarization at t1.
C9_ThresholdMonotone ==
    \A t1, t2 \in Thresholds :
        RLt(t1, t2) =>
            CountOnes(video_removed, t2) <= CountOnes(video_removed, t1)

C9_Witness ==
    /\ ret # None /\ ~ret.err
    /\ HasFraction(video_removed)
    /\ \E t1, t2 \in Thresholds :
          /\ RLt(t1, t2)
          /\ t2 = ret.thresh
          /\ CountOnes(video_removed, t2) < CountOnes(video_removed, t1)

\* get_gt_video has returned.
GtLoaded == gt # None /\ reads # <<>>

\* Every frame of gt is the pixel of the file of that name in directory d.
FramesComeFrom(d) ==
    /\ Len(gt.data) = Len(reads)
    /\ \A k \in DOMAIN reads :
          /\ reads[k][1] = d
          /\ reads[k][2] \in DOMAIN fs[d]
          /\ gt.data[k] = <<Rat(fs[d][reads[k][2]], 255)>>

\* C10 (as stated): for the file names in both listings get_gt_video reads
\* the pixels from the raw-frame directory, SegTrackv2/JPEGImages/<object>.
C10_ReadsRawFrames == GtLoaded => FramesComeFrom("JPEGImages")

\* C10 (amended): for the file names in both listings get_gt_video reads the
\* pixels from the ground-truth directory, SegTrackv2/GroundTruth/<object>.
C10_ReadsGroundTruth == GtLoaded => FramesComeFrom("GroundTruth")

C10_Witness ==
    /\ GtLoaded
    /\ Len(reads) = 2
    /\ \A k \in DOMAIN reads :
          fs["JPEGImages"][reads[k][2]] # fs["GroundTruth"][reads[k][2]]
    /\ FramesComeFrom("GroundTruth")

\* get_video_dmd has returned a matrix.
DmdReturned == dmd # None /\ ~dmd.err

\* C11 (as stated): with noise enabled get_video_dmd returns
\* clip(frames + noise, 0, 1), noise being the draw of that call; with noise
\* disabled it returns the unperturbed frame matrix.
C11_NoiseInReturn ==
    DmdReturned =>
        dmd.ret[1] = IF dmd.noise THEN Clip01(AddNoise(dmd.frames, dmd.draw))
                     ELSE dmd.frames

\* calc_f1 of the scenario has returned.
ScenarioDone ==
    /\ tmp # None /\ tmp.shape = <<3, FrameSide, FrameSide>>
    /\ ret # None /\ ret.fn = "calc_f1" /\ ~ret.err

\* The square of frame 1 is at least the threshold brighter than the gray.
SquareAboveThreshold ==
    \A k \in DOMAIN gt.data[1] :
        Truthy(gt.data[1][k]) =>
            RGe(RSub(tmp.data[2][k], tmp.data[1][k]), ScenarioThreshold)

\* C12 (as stated): in the scenario calc_f1 at threshold 0.5 yields
\* F1 = 1.0, up to the tolerance, whatever the gray and the brighter level
\* of the square are.
C12_ScenarioF1IsOne ==
    ScenarioDone =>
        /\ FLe(ret.val, FOne)
        /\ FLe(FOne, FAdd(ret.val, Tolerance))

\* C12 (amended): in the scenario calc_f1 at threshold 0.5 yields a value
\* below 1.0 by less than 1e-7 when the square is at least 0.5 brighter than
\* the gray (the prediction is then exactly the mask), and exactly 0
\* otherwise.
C12_ScenarioF1NearOne ==
    ScenarioDone =>
        /\ ~FIsNaN(ret.val)
        /\ SquareAboveThreshold =>
              /\ f1_call.y_pred = f1_call.y_true
              /\ SeqSum(f1_call.y_true) = SquareSide * SquareSide
              /\ FLe(ret.val, FOne) /\ ~FLe(FOne, ret.val)
              /\ FLe(FOne, FAdd(ret.val, epsilon))
        /\ ~SquareAboveThreshold =>
              /\ SeqSum(f1_call.y_pred) = 0
              /\ ret.val.n = <<>>

C12_Witness ==
    /\ ScenarioDone
    /\ SquareAboveThreshold
    /\ tmp.data[1][1] = <<1, 4>>
    /\ f1_call.y_pred = f1_call.y_true
    /\ FLe(FOne, FAdd(ret.val, epsilon))

\* The file names a list of paths goes through, in order.
NamesOf(paths) == [k \in DOMAIN paths |-> paths[k][2]]

\* The file names present in both directories of the object.
InBoth == DOMAIN fs["JPEGImages"] \cap DOMAIN fs["GroundTruth"]

\* C13: get_gt_video returns one frame per file name present in both
\* directories, each exactly once, in ascending lexicographic order; and
\* whenever get_video and get_gt_video return the same number of frames,
\* frame k of both comes from the same file name for every k.
C13_FramesAligned ==
    /\ gt # None =>
          /\ Len(gt.data) = Len(reads)
          /\ Len(reads) = Cardinality(InBoth)
          /\ {reads[k][2] : k \in DOMAIN reads} = InBoth
          /\ \A j \in DOMAIN reads : \A k \in DOMAIN reads :
                j < k => LexLt(reads[j][2], reads[k][2])
    /\ tmp # None =>
          /\ Len(tmp.data) = Len(video_reads)
          /\ {video_reads[k][2] : k \in DOMAIN video_reads}
                = DOMAIN fs["JPEGImages"]
    /\ (gt # None /\ tmp # None /\ Len(tmp.data) = Len(gt.data)) =>
          NamesOf(video_reads) = NamesOf(reads)

\* Both loaders have run, on a ground-truth directory with one more file
\* than the raw-frame directory, and returned two frames each.
C13_Witness ==
    /\ gt # None /\ tmp # None
    /\ Len(tmp.data) = 2 /\ Len(gt.data) = 2
    /\ Cardinality(DOMAIN fs["GroundTruth"]) = 3
    /\ NamesOf(video_reads) = NamesOf(reads)
    /\ NamesOf(reads) = << <<1>>, <<1, 0>> >>

\* get_video_removed has returned at least once.
RemovedReturned == removed # None /\ runs >= 1

\* C14: get_video_removed subtracts bg from the caller's array in place and
\* returns that same array, leaving bg unchanged; after n calls every frame
\* is its original value minus n times bg, each call changes every pixel
\* whose background value is not zero, and a second run of the cell gives a
\* smaller foreground at every pixel that had a positive foreground and has a
\* positive background value.
C14_SubtractsInPlace ==
    RemovedReturned =>
        /\ removed.obj = "caller"
        /\ removed.val = tmp
        /\ removed.bg_in = bg
        /\ tmp.shape = tmp0.shape
        /\ \A f \in DOMAIN tmp.data : \A p \in DOMAIN tmp.data[f] :
              /\ tmp.data[f][p] = RSub(tmp0.data[f][p], RMulInt(bg[p], runs))
              /\ tmp.data[f][p] = RSub(removed.before.data[f][p], bg[p])
              /\ bg[p] # Zero => tmp.data[f][p] # removed.before.data[f][p]
              /\ (runs >= 2 /\ RLt(Zero, bg[p])
                    /\ RLt(Zero, removed.prev_fg.data[f][p])) =>
                    RLt(video_removed.data[f][p], removed.prev_fg.data[f][p])

\* The cell has run twice on a video with a pixel of value 1 where the
\* background is 1/4: the first foreground has 3/4 there, the second 1/2.
C14_Witness ==
    /\ RemovedReturned
    /\ runs = 2
    /\ removed.obj = "caller"
    /\ \E f \in DOMAIN tmp.data : \E p \in DOMAIN tmp.data[f] :
          /\ tmp0.data[f][p] = One
          /\ bg[p] = <<1, 4>>
          /\ removed.prev_fg.data[f][p] = <<3, 4>>
          /\ video_removed.data[f][p] = <<1, 2>>
          /\ tmp.data[f][p] = <<1, 2>>

====
